---- MODULE Spec2Model ----
(***************************************************************************)
(* A model of the CommonTable component (src/components/table/             *)
(* CommonTable.tsx, first revision in the file): the filter -> sort ->     *)
(* paginate data pipeline, the controlled / uncontrolled pagination state  *)
(* and the unified onChange notification.                                  *)
(*                                                                         *)
(* A state of the model is the component between two events: the props     *)
(* the caller passed on the latest render, the component's useState cells, *)
(* and the callbacks invoked by the latest handler.  The values derived    *)
(* during render (filteredData, sortedData, displayData, ...) are          *)
(* operators over that state, computed as the render computes them.        *)
(***************************************************************************)
EXTENDS Integers, Sequences, FiniteSets

(***************************************************************************)
(* Bounds of the model and program constants.                              *)
(***************************************************************************)
\* number of rows of the largest data source the caller passes
MaxRows == 11
\* largest page number a caller or a pagination control asks for
MaxPage == 3
\* how many page numbers below 1 a caller may pass (0, -1, ...)
PagesBelowOne == 2
\* the page size callers use besides the default one
SmallPageSize == 2
\* useState default / fallback page size
DefaultPageSize == 10

\* the rows of the data source of the selection scenarios
SelRows == 4
PageInputs == (1 - PagesBelowOne)..MaxPage
PageSizes == {SmallPageSize, DefaultPageSize}
DataSizes == {0, MaxRows}

Min(a, b) == IF a < b THEN a ELSE b
Max(a, b) == IF a > b THEN a ELSE b

(***************************************************************************)
(* JavaScript values of cells and filter keys.  A value keeps its type tag *)
(* and its String(...) form (a sequence of characters), so that            *)
(* String(1) = String("1") while the values themselves differ.             *)
(***************************************************************************)
Digits == <<"0", "1", "2", "3", "4", "5", "6", "7", "8", "9">>
\* the decimal digits of a natural number below 1000
NumStr(k) ==
  IF k < 10 THEN <<Digits[k + 1]>>
  ELSE IF k < 100 THEN <<Digits[(k \div 10) + 1], Digits[(k % 10) + 1]>>
  ELSE <<Digits[(k \div 100) + 1], Digits[((k \div 10) % 10) + 1],
         Digits[(k % 10) + 1]>>
Num(k) == [t |-> "number", n |-> k, s |-> NumStr(k)]
\* a string value, given as its characters
Str(x) == [t |-> "string", n |-> 0, s |-> x]
Undefined == [t |-> "undefined", n |-> 0, s |-> <<"undefined">>]
\* String(v)
ToString(v) == v.s
\* va < vb for the values the model's sortable column holds (numbers, undefined)
JsLess(va, vb) == va.t = "number" /\ vb.t = "number" /\ va.n < vb.n

(***************************************************************************)
(* The caller's rows.  A row is identified by its index (Row gives its    *)
(* fields); the data source is a sequence of such row identities.         *)
(***************************************************************************)
ChannelOf(i) ==
  IF i % 3 = 1 THEN Str(<<"a">>) ELSE IF i % 3 = 2 THEN Num(1) ELSE Str(<<"b">>)
DurOf(i) == IF i % 3 = 2 THEN 2 ELSE i % 5
\* the id field is missing from the third row on
IdOf(i) == IF i >= 3 THEN Undefined ELSE Num(i)
RowRecord(i) ==
  [key |-> Num(i), id |-> IdOf(i), channel |-> ChannelOf(i),
   dur |-> Num(DurOf(i))]
\* the rows of the largest data source (and of one more row)
RowTable == [i \in 1..(MaxRows + 1) |-> RowRecord(i)]
Row(i) == RowTable[i]
MakeData(n) == [i \in 1..n |-> i]

(***************************************************************************)
(* The caller's columns: "ch" shows the channel field, is filtered by      *)
(* string equality and sorted by a custom comparator; "dur" is filtered by *)
(* an onFilter predicate and sorted with sorter: true.                     *)
(***************************************************************************)
Columns == <<
  [key |-> "ch", dataIndex |-> "channel", sorter |-> "function",
   filters |-> <<Str(<<"a">>), Str(<<"1">>)>>, onFilter |-> FALSE],
  [key |-> "dur", dataIndex |-> "dur", sorter |-> "true",
   filters |-> <<Num(3)>>, onFilter |-> TRUE] >>
ColumnIndexes == 1..Len(Columns)
\* the caller's onFilter of the "dur" column: (value, record) => record.dur >= value
OnFilter(v, r) == Row(r).dur.n >= v.n
\* the caller's comparator of the "ch" column: (a, b) => b.key - a.key
SorterFn(a, b) == Row(b).key.n - Row(a).key.n

VARIABLES
  dataSource,               \* prop dataSource: sequence of row identities
  paginationProp,           \* prop pagination: [enabled, hasOnChange, serverSide, current, pageSize]
  visibleKeys,              \* prop columnSettingsProps.visibleKeys: [given, keys]
  internalPagination,       \* useState: [current, pageSize]
  filters,                  \* useState: column key -> [state, values]
  sorter,                   \* useState: [field, order]
  sortedData,               \* useMemo: the working set of the latest render
  onChangeCalls,            \* calls of props.onChange made by the latest handler
  paginationOnChangeCalls,  \* calls of pagination.onChange made by the latest handler
  lastOp,                   \* the handler that ran last
  rowKey,                   \* prop rowKey: the name of the field holding a row's key
  rowSelectionProp,         \* prop rowSelection: [enabled, type, controlled, selectedRowKeys, fixed]
  selectedRowKeySet,        \* useState: the set of selected keys
  rowSelectionOnChangeCalls, \* calls of rowSelection.onChange made by the latest handler
  columnProps,              \* props columns[].width, minWidth, fixed: column key -> record
  scrollProp,               \* prop scroll: [x, y], each given or not
  scrollContainer,          \* the scroll container element: [scrollLeft, scrollWidth, clientWidth]
  scrollPos,                \* useState: the latest snapshot of the element
  mounted,                  \* the component is mounted
  observerEffect,           \* the observer effect's latest run: [ran, hasScroll]
  observers                 \* the ResizeObservers connected to the element

vars == <<dataSource, paginationProp, visibleKeys, internalPagination, filters,
          sorter, sortedData, onChangeCalls, paginationOnChangeCalls, lastOp,
          rowKey, rowSelectionProp, selectedRowKeySet,
          rowSelectionOnChangeCalls, columnProps, scrollProp, scrollContainer,
          scrollPos, mounted, observerEffect, observers>>

\* a handler that neither reads nor writes the column layout, the scroll
\* snapshot or the observer
LayoutUntouched ==
  UNCHANGED <<columnProps, scrollProp, scrollContainer, scrollPos, mounted,
              observerEffect, observers>>

\* a handler that empties the selection
SelectionUntouched_Resets ==
  /\ rowSelectionOnChangeCalls' = <<>>
  /\ selectedRowKeySet' = {}
  /\ UNCHANGED <<rowKey, rowSelectionProp>>

\* a handler that neither reads nor writes the selection
SelectionUntouched ==
  /\ rowSelectionOnChangeCalls' = <<>>
  /\ UNCHANGED <<rowKey, rowSelectionProp, selectedRowKeySet>>

(***************************************************************************)
(* Render: the values CommonTable derives from props and state.            *)
(***************************************************************************)
\* getColumnKey(col, index): the explicit key, else the dataIndex, else the index
getColumnKey(col, index) ==
  IF col.key # "" THEN col.key
  ELSE IF col.dataIndex # "" THEN col.dataIndex
  ELSE Digits[index + 1]

ColumnKeys == {getColumnKey(Columns[c], c) : c \in ColumnIndexes}

\* getCellValue(record, dataIndex): the field of the row, undefined when absent
getCellValue(record, dataIndex) ==
  IF dataIndex = "" THEN Undefined
  ELSE IF dataIndex \in DOMAIN Row(record) THEN Row(record)[dataIndex]
  ELSE Undefined

\* a VisibleColumns that takes every column for visible
VisibleColumns_All(vis) == [c \in ColumnIndexes |-> c]

\* the columns (by index in Columns, in order) whose key is in the visible
\* keys `vis`; every column when the caller gives no visibleKeys
VisibleColumns(vis) ==
  LET Shown(c) == ~vis.given \/ getColumnKey(Columns[c], c) \in vis.keys
  IN SelectSeq([c \in ColumnIndexes |-> c], Shown)

visibleColumns == VisibleColumns(visibleKeys)

\* a MatchesSome that compares with === without String(...)
MatchesSome_Strict(col, filterValues, record) ==
  \E j \in 1..Len(filterValues) :
    IF col.onFilter THEN OnFilter(filterValues[j], record)
    ELSE getCellValue(record, col.dataIndex) = filterValues[j]

\* filterValues.some(v => onFilter ? onFilter(v, record) : String(cell) === String(v))
MatchesSome(col, filterValues, record) ==
  \E j \in 1..Len(filterValues) :
    IF col.onFilter THEN OnFilter(filterValues[j], record)
    ELSE ToString(getCellValue(record, col.dataIndex)) = ToString(filterValues[j])

\* a FilterByColumns without the early return: a column without accepted
\* values keeps no row
RECURSIVE FilterByColumns_NoSkip(_, _, _)
FilterByColumns_NoSkip(result, cols, f) ==
  IF cols = <<>> THEN result
  ELSE
    LET col == Columns[Head(cols)]
        filterValues == f[getColumnKey(col, Head(cols))]
        Keep(record) == MatchesSome(col, filterValues.values, record)
    IN FilterByColumns_NoSkip(SelectSeq(result, Keep), Tail(cols), f)

\* a FilterByColumns that skips a column only when its entry is absent: a
\* column whose entry is null keeps no row
RECURSIVE FilterByColumns_NullFilters(_, _, _)
FilterByColumns_NullFilters(result, cols, f) ==
  IF cols = <<>> THEN result
  ELSE
    LET col == Columns[Head(cols)]
        filterValues == f[getColumnKey(col, Head(cols))]
        Keep(record) == MatchesSome(col, filterValues.values, record)
    IN IF filterValues.state = "absent"
       THEN FilterByColumns_NullFilters(result, Tail(cols), f)
       ELSE FilterByColumns_NullFilters(SelectSeq(result, Keep), Tail(cols), f)

\* the forEach of the filteredData memo over the visible columns `cols`, with
\* the filter state f, from the rows `result`
RECURSIVE FilterByColumns(_, _, _)
FilterByColumns(result, cols, f) ==
  IF cols = <<>> THEN result
  ELSE
    LET col == Columns[Head(cols)]
        filterValues == f[getColumnKey(col, Head(cols))]
        Keep(record) == MatchesSome(col, filterValues.values, record)
    IN IF filterValues.state # "list" \/ Len(filterValues.values) = 0
       THEN FilterByColumns(result, Tail(cols), f)
       ELSE FilterByColumns(SelectSeq(result, Keep), Tail(cols), f)

\* the callback of the filteredData memo, for a data source, visible keys and
\* filter state
FilteredData(rows, vis, f) == FilterByColumns(rows, VisibleColumns(vis), f)

filteredData == FilteredData(dataSource, visibleKeys, filters)

\* a Compare that negates the caller's comparator for a descending sort
Compare_Inverts(col, order, a, b) ==
  LET va == getCellValue(a, col.dataIndex)
      vb == getCellValue(b, col.dataIndex)
      cmp == IF col.sorter = "function" THEN SorterFn(a, b)
             ELSE IF JsLess(va, vb) THEN 0 - 1 ELSE IF JsLess(vb, va) THEN 1 ELSE 0
  IN IF order = "ascend" THEN cmp ELSE 0 - cmp

\* the comparator sortedData hands to Array.prototype.sort for column `col`
Compare(col, order, a, b) ==
  IF col.sorter = "function" THEN SorterFn(a, b)
  ELSE
    LET va == getCellValue(a, col.dataIndex)
        vb == getCellValue(b, col.dataIndex)
        cmp == IF JsLess(va, vb) THEN 0 - 1 ELSE IF JsLess(vb, va) THEN 1 ELSE 0
    IN IF order = "ascend" THEN cmp ELSE 0 - cmp

\* a step of an unstable sort: x goes before the rows that compare equal to it
InsertSorted_BeforeTies(sorted, x, col, order) ==
  LET after == {j \in 1..Len(sorted) : Compare(col, order, sorted[j], x) >= 0}
      at == IF after = {} THEN Len(sorted) + 1
            ELSE CHOOSE j \in after : \A k \in after : j <= k
  IN SubSeq(sorted, 1, at - 1) \o <<x>> \o SubSeq(sorted, at, Len(sorted))

\* one step of a stable sort: x goes before the first row that compares
\* greater than it, after the rows that do not
InsertSorted(sorted, x, col, order) ==
  LET after == {j \in 1..Len(sorted) : Compare(col, order, sorted[j], x) > 0}
      at == IF after = {} THEN Len(sorted) + 1
            ELSE CHOOSE j \in after : \A k \in after : j <= k
  IN SubSeq(sorted, 1, at - 1) \o <<x>> \o SubSeq(sorted, at, Len(sorted))

\* [...rows].sort(comparator): Array.prototype.sort is stable
RECURSIVE SortRows(_, _, _)
SortRows(rows, col, order) ==
  IF rows = <<>> THEN <<>>
  ELSE LET sorted == SortRows(SubSeq(rows, 1, Len(rows) - 1), col, order)
       IN InsertSorted(sorted, rows[Len(rows)], col, order)

\* a SortedData that looks the sort column up among all the columns
SortedData_AllColumns(filtered, vis, so) ==
  IF so.field = "" \/ so.order = "null" THEN filtered
  ELSE
    LET Named(c) == getColumnKey(Columns[c], c) = so.field
                    \/ Columns[c].dataIndex = so.field
        found == SelectSeq([c \in ColumnIndexes |-> c], Named)
    IN IF found = <<>> THEN filtered
       ELSE IF Columns[Head(found)].sorter \in {"function", "true"}
            THEN SortRows(filtered, Columns[Head(found)], so.order)
       ELSE filtered

\* the callback of the sortedData memo, for the filtered rows, visible keys
\* and sort state
SortedData(filtered, vis, so) ==
  IF so.field = "" \/ so.order = "null" THEN filtered
  ELSE
    LET Named(c) == getColumnKey(Columns[c], c) = so.field
                    \/ Columns[c].dataIndex = so.field
        found == SelectSeq(VisibleColumns(vis), Named)
    IN IF found = <<>> THEN filtered
       ELSE IF Columns[Head(found)].sorter \in {"function", "true"}
            THEN SortRows(filtered, Columns[Head(found)], so.order)
       ELSE filtered

\* a sort in place, filteredData.sort(...): filteredData is the caller's array
\* itself when no filter narrowed it, and the caller's array is then sorted
CallerRowsAfterSort_InPlace(rows, filtered, sorted) ==
  IF filtered = rows THEN sorted ELSE rows

\* the caller's array after [...filteredData].sort(...): the copy is sorted,
\* the caller's array is as it was
CallerRowsAfterSort(rows, filtered, sorted) == rows

\* a render whose props or state differ in the memo's dependencies computes
\* the memo again, from the props and state it is given
Rerender(rows, vis, f, so) ==
  sortedData' = SortedData(FilteredData(rows, vis, f), vis, so)

\* an isPaginationControlled that takes no pagination for controlled
isPaginationControlled_Never == FALSE

\* paginationProp !== false && typeof paginationProp.onChange === "function"
isPaginationControlled == paginationProp.enabled /\ paginationProp.hasOnChange

\* paginationConfig.current / .pageSize (paginationConfig is false when disabled)
paginationConfig ==
  [current |-> IF isPaginationControlled THEN paginationProp.current
               ELSE internalPagination.current,
   pageSize |-> IF isPaginationControlled THEN paginationProp.pageSize
                ELSE internalPagination.pageSize]

isServerSide == paginationProp.enabled /\ paginationProp.serverSide
currentPage == IF paginationProp.enabled THEN paginationConfig.current ELSE 1
pageSize ==
  IF paginationProp.enabled THEN paginationConfig.pageSize ELSE DefaultPageSize

total == Len(sortedData)
\* Math.ceil(a / b) for a >= 0, b > 0
CeilDiv(a, b) == (a + b - 1) \div b
totalPages == Max(1, CeilDiv(total, pageSize))
effectiveCurrentPage == IF total = 0 THEN 1 ELSE Min(currentPage, totalPages)

\* Array.prototype.slice(start, end): negative indexes count from the end
Slice(seq, start, end) ==
  LET len == Len(seq)
      from == IF start < 0 THEN Max(len + start, 0) ELSE Min(start, len)
      to == IF end < 0 THEN Max(len + end, 0) ELSE Min(end, len)
  IN SubSeq(seq, from + 1, to)

displayData ==
  IF isServerSide THEN dataSource
  ELSE LET start == (effectiveCurrentPage - 1) * pageSize
       IN Slice(sortedData, start, start + pageSize)

\* a page correction that does not look at isPaginationControlled
PageCorrectionPending_Controlled ==
  ~isServerSide /\ total # 0 /\ currentPage > totalPages

\* the condition under which the page-correction effect updates the state
PageCorrectionPending ==
  /\ ~isServerSide
  /\ total # 0
  /\ currentPage > totalPages
  /\ ~isPaginationControlled

(***************************************************************************)
(* Handlers.  Each one is the whole callback: its state updates and the    *)
(* callbacks of the caller it invokes, which the model records in          *)
(* onChangeCalls and paginationOnChangeCalls.                              *)
(***************************************************************************)
\* values of filters[key]: never set, null, or an array of accepted values
Absent == [state |-> "absent", values |-> <<>>]
Null == [state |-> "null", values |-> <<>>]
List(values) == [state |-> "list", values |-> values]

\* the pagination descriptor a handler reports (the model's callers pass no
\* pagination.total, so the server-side total is undefined, written 0 - 1)
NewPagination(current, size) ==
  [current |-> current, pageSize |-> size,
   total |-> IF isServerSide THEN 0 - 1 ELSE total]

\* a triggerOnChange that notifies the caller twice
triggerOnChange_Twice(pagination, f, s, extra) ==
  <<[pagination |-> pagination, filters |-> f, sorter |-> s,
     currentDataSource |-> extra],
    [pagination |-> pagination, filters |-> f, sorter |-> s,
     currentDataSource |-> extra]>>

\* triggerOnChange: the calls of props.onChange it makes
triggerOnChange(pagination, f, s, extra) ==
  <<[pagination |-> pagination, filters |-> f, sorter |-> s,
     currentDataSource |-> extra]>>

handlePaginationChange(page, newPageSize) ==
  IF ~paginationProp.enabled
  THEN /\ onChangeCalls' = <<>>
       /\ paginationOnChangeCalls' = <<>>
       /\ lastOp' = "page"
       /\ SelectionUntouched
       /\ LayoutUntouched
       /\ UNCHANGED <<dataSource, paginationProp, visibleKeys,
                      internalPagination, filters, sorter>>
       /\ UNCHANGED sortedData
  ELSE /\ internalPagination' =
            IF ~isPaginationControlled
            THEN [current |-> page, pageSize |-> newPageSize]
            ELSE internalPagination
       /\ paginationOnChangeCalls' =
            IF paginationProp.hasOnChange
            THEN <<[page |-> page, pageSize |-> newPageSize]>>
            ELSE <<>>
       /\ onChangeCalls' =
            triggerOnChange(NewPagination(page, newPageSize), filters, sorter,
                            displayData)
       /\ lastOp' = "page"
       /\ SelectionUntouched
       /\ LayoutUntouched
       /\ UNCHANGED <<dataSource, paginationProp, visibleKeys, filters, sorter>>
       /\ UNCHANGED sortedData

handleFilterChange(columnKey, value) ==
  LET newFilters == [filters EXCEPT ![columnKey] = value]
  IN /\ filters' = newFilters
     /\ internalPagination' =
          IF ~isPaginationControlled
          THEN [internalPagination EXCEPT !.current = 1]
          ELSE internalPagination
     /\ onChangeCalls' =
          triggerOnChange(NewPagination(1, pageSize), newFilters, sorter,
                          displayData)
     /\ paginationOnChangeCalls' = <<>>
     /\ lastOp' = "filter"
     /\ SelectionUntouched
     /\ LayoutUntouched
     /\ UNCHANGED <<dataSource, paginationProp, visibleKeys, sorter>>
     /\ Rerender(dataSource, visibleKeys, newFilters, sorter)

handleSorterChange(field, nextOrder) ==
  /\ sorter' = [field |-> field, order |-> nextOrder]
  /\ internalPagination' =
       IF ~isPaginationControlled
       THEN [internalPagination EXCEPT !.current = 1]
       ELSE internalPagination
  /\ onChangeCalls' =
       triggerOnChange(NewPagination(1, pageSize), filters,
                       [field |-> field, order |-> nextOrder], displayData)
  /\ paginationOnChangeCalls' = <<>>
  /\ lastOp' = "sort"
  /\ SelectionUntouched
  /\ LayoutUntouched
  /\ UNCHANGED <<paginationProp, visibleKeys, filters>>
  /\ dataSource' =
       CallerRowsAfterSort(dataSource, filteredData,
                           SortedData(filteredData, visibleKeys,
                                      [field |-> field, order |-> nextOrder]))
  /\ Rerender(dataSource, visibleKeys, filters,
              [field |-> field, order |-> nextOrder])

(***************************************************************************)
(* Actions: the user's interactions with the rendered controls, the page   *)
(* correction effect, and the caller re-rendering with other props.  An    *)
(* effect scheduled by a render runs before the next event is handled.     *)
(***************************************************************************)
\* a checkbox of the filter dropdown of visible column c, for its j-th option
FilterCheckboxChange(c, j) ==
  LET col == Columns[c]
      key == getColumnKey(col, c)
      value == col.filters[j]
      current == IF filters[key].state = "list" THEN filters[key].values ELSE <<>>
      selected == \E k \in 1..Len(current) : current[k] = value
      Other(v) == v # value
      next == IF ~selected THEN Append(current, value)
              ELSE SelectSeq(current, Other)
  IN /\ ~PageCorrectionPending
     /\ \E k \in 1..Len(visibleColumns) : visibleColumns[k] = c
     /\ handleFilterChange(key, IF Len(next) # 0 THEN List(next) ELSE Null)

\* the reset button of the filter dropdown of visible column c
FilterReset(c) ==
  /\ ~PageCorrectionPending
  /\ \E k \in 1..Len(visibleColumns) : visibleColumns[k] = c
  /\ Len(Columns[c].filters) > 0
  /\ handleFilterChange(getColumnKey(Columns[c], c), Null)

\* a sort button that takes the order of the sort state for the order of its
\* own column, whichever column the sort state names
SortClick_AnyField(c) ==
  LET col == Columns[c]
      key == getColumnKey(col, c)
      currentOrder == sorter.order
      next == IF currentOrder = "null" THEN "ascend"
              ELSE IF currentOrder = "ascend" THEN "descend" ELSE "null"
  IN /\ ~PageCorrectionPending
     /\ \E k \in 1..Len(visibleColumns) : visibleColumns[k] = c
     /\ col.sorter # "none"
     /\ handleSorterChange(IF col.dataIndex # "" THEN col.dataIndex ELSE key,
                           next)

\* the sort button in the header of visible column c
SortClick(c) ==
  LET col == Columns[c]
      key == getColumnKey(col, c)
      currentOrder ==
        IF sorter.field = key \/ sorter.field = col.dataIndex
        THEN sorter.order ELSE "null"
      next == IF currentOrder = "null" THEN "ascend"
              ELSE IF currentOrder = "ascend" THEN "descend" ELSE "null"
  IN /\ ~PageCorrectionPending
     /\ \E k \in 1..Len(visibleColumns) : visibleColumns[k] = c
     /\ col.sorter # "none"
     /\ handleSorterChange(IF col.dataIndex # "" THEN col.dataIndex ELSE key,
                           next)

\* a page or page-size change asked for through a pagination control
PaginationChange(page, newPageSize) ==
  /\ ~PageCorrectionPending
  /\ paginationProp.enabled
  /\ handlePaginationChange(page, newPageSize)

\* useEffect: in uncontrolled client-side mode, a current page beyond the
\* last page is set to the last page
PageCorrectionEffect ==
  /\ PageCorrectionPending
  /\ internalPagination' = [internalPagination EXCEPT !.current = totalPages]
  /\ onChangeCalls' = <<>>
  /\ paginationOnChangeCalls' = <<>>
  /\ lastOp' = "effect"
  /\ SelectionUntouched
  /\ LayoutUntouched
  /\ UNCHANGED <<dataSource, paginationProp, visibleKeys, filters, sorter>>
  /\ UNCHANGED sortedData

\* the caller renders the table with another dataSource
SetDataSource(n) ==
  /\ ~PageCorrectionPending
  /\ Len(dataSource) # n
  /\ dataSource' = MakeData(n)
  /\ onChangeCalls' = <<>>
  /\ paginationOnChangeCalls' = <<>>
  /\ lastOp' = "props"
  /\ SelectionUntouched
  /\ LayoutUntouched
  /\ UNCHANGED <<paginationProp, visibleKeys, internalPagination, filters, sorter>>
  /\ Rerender(MakeData(n), visibleKeys, filters, sorter)

NoVisibleKeys == [given |-> FALSE, keys |-> {}]
VisibleKeyChoices ==
  {NoVisibleKeys} \cup {[given |-> TRUE, keys |-> ColumnKeys \ {k}] : k \in ColumnKeys}

\* the caller renders the table with another columnSettingsProps.visibleKeys
SetVisibleKeys(v) ==
  /\ ~PageCorrectionPending
  /\ v # visibleKeys
  /\ visibleKeys' = v
  /\ onChangeCalls' = <<>>
  /\ paginationOnChangeCalls' = <<>>
  /\ lastOp' = "props"
  /\ SelectionUntouched
  /\ LayoutUntouched
  /\ UNCHANGED <<dataSource, paginationProp, internalPagination, filters, sorter>>
  /\ Rerender(dataSource, v, filters, sorter)

\* the caller of a controlled table renders it with another current / pageSize
SetPagination(page, size) ==
  /\ ~PageCorrectionPending
  /\ isPaginationControlled
  /\ paginationProp.current # page \/ paginationProp.pageSize # size
  /\ paginationProp' = [paginationProp EXCEPT !.current = page, !.pageSize = size]
  /\ onChangeCalls' = <<>>
  /\ paginationOnChangeCalls' = <<>>
  /\ lastOp' = "props"
  /\ SelectionUntouched
  /\ LayoutUntouched
  /\ UNCHANGED <<dataSource, visibleKeys, internalPagination, filters, sorter>>
  /\ UNCHANGED sortedData

(***************************************************************************)
(* Row selection: the selected keys, the handlers of the selection column  *)
(* and the calls of rowSelection.onChange they make.  Key lists are        *)
(* modelled as sets of keys.                                               *)
(***************************************************************************)
\* getRowKey(record) for a rowKey naming a field: record[rowKey]
getRowKey(record) == Row(record)[rowKey]

\* the caller's list when it supplies one, else the internal set
selectedRowKeys ==
  IF rowSelectionProp.controlled THEN rowSelectionProp.selectedRowKeys
  ELSE selectedRowKeySet

\* dataSource.filter(r => keys.has(getRowKey(r)))
RowsWithKeys(keys) ==
  LET Has(r) == getRowKey(r) \in keys
  IN SelectSeq(dataSource, Has)

\* a keysOnPage over the whole working set
keysOnPage_AllRows == {getRowKey(sortedData[i]) : i \in 1..Len(sortedData)}

\* displayData.map(getRowKey)
keysOnPage == {getRowKey(displayData[i]) : i \in 1..Len(displayData)}

\* the checked state of the header checkbox
AllOnPageSelected ==
  /\ Len(displayData) > 0
  /\ \A i \in 1..Len(displayData) : getRowKey(displayData[i]) \in selectedRowKeys

\* rowKeySafe of the i-th displayed row (index i - 1): its key, or its index
\* when the key is undefined or null
rowKeySafe(i) ==
  LET key == getRowKey(displayData[i])
  IN IF key # Undefined THEN key ELSE Num(i - 1)

\* the key of the <tr> of the i-th displayed row: rowKeySafe.toString()
RenderKey(i) == ToString(rowKeySafe(i))

\* one call rowSelection.onChange(selectedRowKeys, selectedRows)
SelectionCall(keys, rows) == [selectedRowKeys |-> keys, selectedRows |-> rows]

\* React runs a state updater once, and once more under StrictMode in a
\* development build
UpdaterRuns == {1, 2}

\* the calls an updater makes that calls rowSelection.onChange(keys, rows)
\* each time it runs
UpdaterCalls(call) ==
  \E n \in UpdaterRuns : rowSelectionOnChangeCalls' = [i \in 1..n |-> call]

toggleRowSelection(record, selected) ==
  LET key == getRowKey(record)
  IN IF rowSelectionProp.controlled
     THEN LET newSet == IF selected
                        THEN rowSelectionProp.selectedRowKeys \cup {key}
                        ELSE rowSelectionProp.selectedRowKeys \ {key}
          IN /\ rowSelectionOnChangeCalls' =
                  <<SelectionCall(newSet, RowsWithKeys(newSet))>>
             /\ UNCHANGED selectedRowKeySet
     ELSE LET next == IF selected THEN selectedRowKeySet \cup {key}
                      ELSE selectedRowKeySet \ {key}
          IN /\ selectedRowKeySet' = next
             /\ UpdaterCalls(SelectionCall(next, RowsWithKeys(next)))

toggleAllRowsOnPage(selected) ==
  IF rowSelectionProp.type = "radio"
  THEN /\ rowSelectionOnChangeCalls' = <<>>
       /\ UNCHANGED selectedRowKeySet
  ELSE IF rowSelectionProp.controlled
  THEN LET newSet == IF selected
                     THEN rowSelectionProp.selectedRowKeys \cup keysOnPage
                     ELSE rowSelectionProp.selectedRowKeys \ keysOnPage
       IN /\ rowSelectionOnChangeCalls' =
               <<SelectionCall(newSet, RowsWithKeys(newSet))>>
          /\ UNCHANGED selectedRowKeySet
  ELSE LET next == IF selected THEN selectedRowKeySet \cup keysOnPage
                   ELSE selectedRowKeySet \ keysOnPage
       IN /\ selectedRowKeySet' = next
          /\ UpdaterCalls(SelectionCall(next, RowsWithKeys(next)))

\* a radio onChange that adds the key to the selection
radioOnChange_Adds(record) ==
  LET key == getRowKey(record)
  IN /\ key \notin selectedRowKeys
     /\ selectedRowKeySet' = selectedRowKeySet \cup {key}
     /\ rowSelectionOnChangeCalls' = <<SelectionCall({key}, <<record>>)>>

\* the onChange of the radio input of a row
radioOnChange(record) ==
  LET key == getRowKey(record)
  IN /\ key \notin selectedRowKeys
     /\ selectedRowKeySet' = {key}
     /\ rowSelectionOnChangeCalls' = <<SelectionCall({key}, <<record>>)>>

\* a selection handler neither reads nor writes the rest of the table
TableUntouched ==
  /\ onChangeCalls' = <<>>
  /\ paginationOnChangeCalls' = <<>>
  /\ UNCHANGED <<dataSource, paginationProp, visibleKeys, internalPagination,
                 filters, sorter, sortedData, rowKey>>

\* the checkbox of the i-th displayed row
RowCheckboxChange(i) ==
  LET record == displayData[i]
      selected == getRowKey(record) \in selectedRowKeys
  IN /\ ~PageCorrectionPending
     /\ rowSelectionProp.enabled /\ rowSelectionProp.type # "radio"
     /\ toggleRowSelection(record, ~selected)
     /\ lastOp' = IF selected THEN "rowOff" ELSE "rowOn"
     /\ UNCHANGED rowSelectionProp
     /\ TableUntouched
     /\ LayoutUntouched

\* the checkbox of the header; a radio table renders none, and
\* toggleAllRowsOnPage returns at once for it
HeaderCheckboxChange(selected) ==
  /\ ~PageCorrectionPending
  /\ rowSelectionProp.enabled
  /\ rowSelectionProp.type # "radio" => selected = ~AllOnPageSelected
  /\ toggleAllRowsOnPage(selected)
  /\ lastOp' = IF selected THEN "allOn" ELSE "allOff"
  /\ UNCHANGED rowSelectionProp
  /\ TableUntouched
  /\ LayoutUntouched

\* the radio input of the i-th displayed row
RadioChange(i) ==
  /\ ~PageCorrectionPending
  /\ rowSelectionProp.enabled /\ rowSelectionProp.type = "radio"
  /\ radioOnChange(displayData[i])
  /\ lastOp' = "radio"
  /\ UNCHANGED rowSelectionProp
  /\ TableUntouched
  /\ LayoutUntouched

\* the caller of a controlled selection renders the table with the keys the
\* latest rowSelection.onChange reported
SetSelectedRowKeys ==
  /\ ~PageCorrectionPending
  /\ rowSelectionProp.controlled
  /\ Len(rowSelectionOnChangeCalls) > 0
  /\ rowSelectionProp' =
       [rowSelectionProp EXCEPT
          !.selectedRowKeys = rowSelectionOnChangeCalls[1].selectedRowKeys]
  /\ rowSelectionOnChangeCalls' = <<>>
  /\ lastOp' = "props"
  /\ UNCHANGED selectedRowKeySet
  /\ TableUntouched
  /\ LayoutUntouched

(***************************************************************************)
(* Column layout, fixed-column offsets, the scroll snapshot and the resize *)
(* observer of the scroll container.                                       *)
(***************************************************************************)
SELECTION_COL_WIDTH == 40

\* the largest scrollWidth and clientWidth of the scroll container
MaxWidth == 2
\* more observers than this are not counted
MaxObservers == 3

\* /^\d+$/.test(String(w)) for a string w
IsDigitString(w) ==
  /\ w.t = "string"
  /\ Len(w.s) > 0
  /\ \A i \in 1..Len(w.s) : \E d \in 1..Len(Digits) : Digits[d] = w.s[i]

\* the digit a character stands for
DigitOf(ch) == (CHOOSE d \in 1..Len(Digits) : Digits[d] = ch) - 1

\* Number(w) for a string of digits
RECURSIVE NumberOfDigits(_)
NumberOfDigits(chars) ==
  IF chars = <<>> THEN 0
  ELSE 10 * NumberOfDigits(SubSeq(chars, 1, Len(chars) - 1))
       + DigitOf(chars[Len(chars)])

\* a layout width that takes numbers only, no strings of digits
LayoutWidth_NumbersOnly(col) ==
  LET w == IF col.width # Undefined THEN col.width ELSE col.minWidth
  IN IF w.t = "number" THEN w.n ELSE 100

\* the width of a column in the layout: w = col.width ?? col.minWidth, taken
\* when a number or a string of digits, 100 otherwise
LayoutWidth(col) ==
  LET w == IF col.width # Undefined THEN col.width ELSE col.minWidth
  IN IF w.t = "number" THEN w.n
     ELSE IF IsDigitString(w) THEN NumberOfDigits(w.s)
     ELSE 100

\* useMemo columnLayout: the selection column when there is a rowSelection
\* prop, then the visible columns in order, each with key, width and fixed
columnLayout ==
  (IF rowSelectionProp.enabled
     THEN << [key |-> "__selection__", width |-> SELECTION_COL_WIDTH,
              fixed |-> rowSelectionProp.fixed] >>
     ELSE <<>>)
  \o [i \in 1..Len(visibleColumns) |->
        LET key == getColumnKey(Columns[visibleColumns[i]], visibleColumns[i])
        IN [key |-> key, width |-> LayoutWidth(columnProps[key]),
            fixed |-> columnProps[key].fixed]]

\* left offsets that count the item's own width
RECURSIVE LeftOffsets_CountsSelf(_)
LeftOffsets_CountsSelf(layout) ==
  IF layout = <<>> THEN <<>>
  ELSE LET n == Len(layout)
           before == LeftOffsets_CountsSelf(SubSeq(layout, 1, n - 1))
           leftAcc == IF n = 1 THEN 0 ELSE before[n - 1]
       IN Append(before,
                 IF layout[n].fixed = "left" THEN leftAcc + layout[n].width
                 ELSE leftAcc)

\* the loop of leftOffsets: left[i] = leftAcc, then leftAcc grows by the
\* width of item i when it is fixed left
RECURSIVE LeftOffsets(_)
LeftOffsets(layout) ==
  IF layout = <<>> THEN <<>>
  ELSE LET n == Len(layout)
           before == LeftOffsets(SubSeq(layout, 1, n - 1))
           leftAcc ==
             IF n = 1 THEN 0
             ELSE IF layout[n - 1].fixed = "left"
                    THEN before[n - 1] + layout[n - 1].width
                    ELSE before[n - 1]
       IN Append(before, leftAcc)

\* the loop of rightOffsets, from the last item down: right[i] = rightAcc,
\* then rightAcc grows by the width of item i when it is fixed right
RECURSIVE RightOffsets(_)
RightOffsets(layout) ==
  IF layout = <<>> THEN <<>>
  ELSE LET after == RightOffsets(Tail(layout))
           rightAcc ==
             IF Len(layout) = 1 THEN 0
             ELSE IF layout[2].fixed = "right"
                    THEN after[1] + layout[2].width
                    ELSE after[1]
       IN <<rightAcc>> \o after

leftOffsets == LeftOffsets(columnLayout)
rightOffsets == RightOffsets(columnLayout)

\* parseScrollDimension gives undefined for an absent dimension only
hasScrollX == scrollProp.x
hasScrollY == scrollProp.y
hasScroll == hasScrollY \/ hasScrollX

\* what sync and handleScroll copy from the element
Snapshot(el) ==
  [scrollLeft |-> el.scrollLeft, scrollWidth |-> el.scrollWidth,
   clientWidth |-> el.clientWidth]

\* an overflow test that leaves out whether scroll.x was requested
HasHorizontalOverflow_NoRequest(x, pos) ==
  /\ pos.scrollWidth > 0
  /\ pos.clientWidth > 0
  /\ pos.scrollWidth > pos.clientWidth

HasHorizontalOverflow(x, pos) ==
  /\ x
  /\ pos.scrollWidth > 0
  /\ pos.clientWidth > 0
  /\ pos.scrollWidth > pos.clientWidth

hasHorizontalOverflow == HasHorizontalOverflow(hasScrollX, scrollPos)
maxScrollLeft == Max(0, scrollPos.scrollWidth - scrollPos.clientWidth)
showLeftFixedShadow == scrollPos.scrollLeft > 0
showRightFixedShadow == maxScrollLeft > 0 /\ scrollPos.scrollLeft < maxScrollLeft

\* the cell of layout item i is rendered sticky, left or right
isFixedLeft(i) == hasHorizontalOverflow /\ columnLayout[i].fixed = "left"
isFixedRight(i) == hasHorizontalOverflow /\ columnLayout[i].fixed = "right"
\* the box shadow of the cell of layout item i
boxShadow(i) ==
  IF isFixedLeft(i) THEN (IF showLeftFixedShadow THEN "left" ELSE "none")
  ELSE IF isFixedRight(i) THEN (IF showRightFixedShadow THEN "right" ELSE "none")
  ELSE "unset"

\* a cleanup that leaves the observer connected
Disconnect_Leaks(count) == count

\* new ResizeObserver(sync); ro.observe(el)
Connect(count) == count + 1
\* the effect's cleanup: ro.disconnect()
Disconnect(count) == count - 1

\* the observer effect has to run: after the mount and after every render
\* whose hasScroll differs from the one of its latest run
ObserverEffectPending ==
  mounted /\ (~observerEffect.ran \/ observerEffect.hasScroll # hasScroll)

\* a handler of the table that leaves the layout and scroll props, the
\* element and the observer as they are
RestUntouched ==
  /\ onChangeCalls' = <<>>
  /\ paginationOnChangeCalls' = <<>>
  /\ rowSelectionOnChangeCalls' = <<>>
  /\ UNCHANGED <<dataSource, paginationProp, visibleKeys, internalPagination,
                 filters, sorter, sortedData, rowKey, rowSelectionProp,
                 selectedRowKeySet, columnProps>>

\* useEffect(..., [hasScroll]): the cleanup of the latest run, then, when
\* scrolling is requested, sync() and a new observer on the element.  In a
\* development build under StrictMode the first run is made twice, with the
\* cleanup between the two.
ObserverEffect ==
  /\ ObserverEffectPending
  /\ observers < MaxObservers
  /\ \E runs \in UpdaterRuns :
       LET cleaned == IF observerEffect.ran /\ observerEffect.hasScroll
                        THEN Disconnect(observers) ELSE observers
           once == IF hasScroll THEN Connect(cleaned) ELSE cleaned
           twice == IF hasScroll THEN Connect(Disconnect(once)) ELSE once
       IN /\ runs = 2 => ~observerEffect.ran
          /\ observers' = IF runs = 2 THEN twice ELSE once
  /\ scrollPos' = IF hasScroll THEN Snapshot(scrollContainer) ELSE scrollPos
  /\ observerEffect' = [ran |-> TRUE, hasScroll |-> hasScroll]
  /\ lastOp' = "observe"
  /\ UNCHANGED <<scrollProp, scrollContainer, mounted>>
  /\ RestUntouched

\* the caller renders the table with another scroll prop
SetScroll(x, y) ==
  /\ mounted /\ ~ObserverEffectPending
  /\ scrollProp # [x |-> x, y |-> y]
  /\ scrollProp' = [x |-> x, y |-> y]
  /\ lastOp' = "props"
  /\ UNCHANGED <<scrollContainer, scrollPos, mounted, observerEffect, observers>>
  /\ RestUntouched

\* the element gets another width; a connected observer calls sync
ContainerResize(clientWidth) ==
  /\ mounted /\ ~ObserverEffectPending
  /\ clientWidth # scrollContainer.clientWidth
  /\ scrollContainer' =
       [scrollContainer EXCEPT
          !.clientWidth = clientWidth,
          !.scrollLeft = Min(@, Max(0, scrollContainer.scrollWidth - clientWidth))]
  /\ scrollPos' = IF observers > 0 THEN Snapshot(scrollContainer') ELSE scrollPos
  /\ lastOp' = "resize"
  /\ UNCHANGED <<scrollProp, mounted, observerEffect, observers>>
  /\ RestUntouched

\* the content of the element gets another width: no resize of the element,
\* no scroll event, the snapshot stays as it was
ContentResize(scrollWidth) ==
  /\ mounted /\ ~ObserverEffectPending
  /\ scrollWidth # scrollContainer.scrollWidth
  /\ scrollContainer' =
       [scrollContainer EXCEPT
          !.scrollWidth = scrollWidth,
          !.scrollLeft = Min(@, Max(0, scrollWidth - scrollContainer.clientWidth))]
  /\ lastOp' = "content"
  /\ UNCHANGED <<scrollProp, scrollPos, mounted, observerEffect, observers>>
  /\ RestUntouched

\* the user scrolls the element; onScroll is handleScroll when scrolling is
\* requested and absent otherwise
Scroll(scrollLeft) ==
  /\ mounted /\ ~ObserverEffectPending
  /\ scrollLeft # scrollContainer.scrollLeft
  /\ scrollLeft <= scrollContainer.scrollWidth - scrollContainer.clientWidth
  /\ scrollContainer' = [scrollContainer EXCEPT !.scrollLeft = scrollLeft]
  /\ scrollPos' = IF hasScroll THEN Snapshot(scrollContainer') ELSE scrollPos
  /\ lastOp' = "scroll"
  /\ UNCHANGED <<scrollProp, mounted, observerEffect, observers>>
  /\ RestUntouched

\* the table unmounts: the cleanup of the effect's latest run
Unmount ==
  /\ mounted /\ ~ObserverEffectPending
  /\ mounted' = FALSE
  /\ observers' = IF observerEffect.ran /\ observerEffect.hasScroll
                    THEN Disconnect(observers) ELSE observers
  /\ lastOp' = "unmount"
  /\ UNCHANGED <<scrollProp, scrollContainer, scrollPos, observerEffect>>
  /\ RestUntouched

\* the values a column's width and minWidth take
WidthValues == {Undefined, Num(140), Str(<<"2", "0", "%">>), Str(<<"1", "2", "0">>)}
MinWidthValues == {Undefined, Num(114), Str(<<"8", "0">>)}
FixedValues == {"left", "right", "none"}
ColumnPropsChoices ==
  [ColumnKeys -> [width : WidthValues, minWidth : MinWidthValues,
                  fixed : FixedValues]]

\* columns without width, minWidth and fixed
ColumnPropsDefault ==
  [k \in ColumnKeys |->
     [width |-> Undefined, minWidth |-> Undefined, fixed |-> "none"]]

\* no scroll prop, columns without width or fixed; the observer effect has
\* run and found no scrolling requested
LayoutDefault ==
  /\ columnProps = ColumnPropsDefault
  /\ scrollProp = [x |-> FALSE, y |-> FALSE]
  /\ scrollContainer = [scrollLeft |-> 0, scrollWidth |-> 0, clientWidth |-> 0]
  /\ scrollPos = [scrollLeft |-> 0, scrollWidth |-> 0, clientWidth |-> 0]
  /\ mounted = TRUE
  /\ observerEffect = [ran |-> TRUE, hasScroll |-> FALSE]
  /\ observers = 0

\* no rowSelection prop, rowKey = "key"
SelectionAbsent ==
  /\ rowKey = "key"
  /\ rowSelectionProp = [enabled |-> FALSE, type |-> "checkbox",
                         controlled |-> FALSE, selectedRowKeys |-> {},
                         fixed |-> "none"]
  /\ selectedRowKeySet = {}
  /\ rowSelectionOnChangeCalls = <<>>

\* pagination={false}
PaginationDisabled ==
  [enabled |-> FALSE, hasOnChange |-> FALSE, serverSide |-> FALSE,
   current |-> 1, pageSize |-> DefaultPageSize]

\* the state after the first render: every pagination mode, all columns visible
Init ==
  /\ dataSource = MakeData(MaxRows)
  /\ \/ paginationProp = PaginationDisabled
     \/ \E controlled \in BOOLEAN, server \in BOOLEAN :
          paginationProp = [enabled |-> TRUE, hasOnChange |-> controlled,
                            serverSide |-> server, current |-> 1,
                            pageSize |-> DefaultPageSize]
  /\ visibleKeys = NoVisibleKeys
  /\ internalPagination =
       [current |-> IF paginationProp.enabled THEN paginationProp.current ELSE 1,
        pageSize |-> IF paginationProp.enabled THEN paginationProp.pageSize
                     ELSE DefaultPageSize]
  /\ filters = [k \in ColumnKeys |-> Absent]
  /\ sorter = [field |-> "", order |-> "null"]
  /\ onChangeCalls = <<>>
  /\ paginationOnChangeCalls = <<>>
  /\ lastOp = "mount"
  /\ sortedData = SortedData(filteredData, visibleKeys, sorter)
  /\ SelectionAbsent
  /\ LayoutDefault

\* filter, sort and page interactions, the page correction effect and a
\* controlled caller's page updates
Next ==
  \/ \E c \in ColumnIndexes : \E j \in 1..Len(Columns[c].filters) :
       FilterCheckboxChange(c, j)
  \/ \E c \in ColumnIndexes : FilterReset(c)
  \/ \E c \in ColumnIndexes : SortClick(c)
  \/ \E page \in 1..MaxPage, size \in PageSizes : PaginationChange(page, size)
  \/ PageCorrectionEffect
  \/ \E page \in PageInputs, size \in PageSizes : SetPagination(page, size)

Spec == Init /\ [][Next]_vars

\* the table mounted with the default pagination, the caller choosing the
\* visible columns and the data source
InitColumns ==
  /\ \E n \in DataSizes : dataSource = MakeData(n)
  /\ paginationProp = [enabled |-> TRUE, hasOnChange |-> FALSE,
                       serverSide |-> FALSE, current |-> 1,
                       pageSize |-> DefaultPageSize]
  /\ visibleKeys \in VisibleKeyChoices
  /\ internalPagination = [current |-> 1, pageSize |-> DefaultPageSize]
  /\ filters = [k \in ColumnKeys |-> Absent]
  /\ sorter = [field |-> "", order |-> "null"]
  /\ onChangeCalls = <<>>
  /\ paginationOnChangeCalls = <<>>
  /\ lastOp = "mount"
  /\ sortedData = SortedData(filteredData, visibleKeys, sorter)
  /\ SelectionAbsent
  /\ LayoutDefault

NextColumns ==
  \/ \E c \in ColumnIndexes : \E j \in 1..Len(Columns[c].filters) :
       FilterCheckboxChange(c, j)
  \/ \E c \in ColumnIndexes : FilterReset(c)
  \/ \E c \in ColumnIndexes : SortClick(c)
  \/ \E n \in DataSizes : SetDataSource(n)
  \/ \E v \in VisibleKeyChoices : SetVisibleKeys(v)

SpecColumns == InitColumns /\ [][NextColumns]_vars

\* the table mounted with a selection column over SelRows rows, pages of
\* SmallPageSize rows, the caller choosing the selection mode and the rowKey
InitSelection ==
  /\ dataSource = MakeData(SelRows)
  /\ paginationProp = [enabled |-> TRUE, hasOnChange |-> FALSE,
                       serverSide |-> FALSE, current |-> 1,
                       pageSize |-> SmallPageSize]
  /\ visibleKeys = NoVisibleKeys
  /\ internalPagination = [current |-> 1, pageSize |-> SmallPageSize]
  /\ filters = [k \in ColumnKeys |-> Absent]
  /\ sorter = [field |-> "", order |-> "null"]
  /\ onChangeCalls = <<>>
  /\ paginationOnChangeCalls = <<>>
  /\ lastOp = "mount"
  /\ sortedData = SortedData(filteredData, visibleKeys, sorter)
  /\ rowKey \in {"key", "id"}
  /\ \E type \in {"checkbox", "radio"}, controlled \in BOOLEAN :
       rowSelectionProp = [enabled |-> TRUE, type |-> type,
                           controlled |-> controlled, selectedRowKeys |-> {},
                           fixed |-> "none"]
  /\ selectedRowKeySet = {}
  /\ rowSelectionOnChangeCalls = <<>>
  /\ LayoutDefault

NextSelection ==
  \/ \E i \in 1..Len(displayData) : RowCheckboxChange(i)
  \/ \E selected \in BOOLEAN : HeaderCheckboxChange(selected)
  \/ \E i \in 1..Len(displayData) : RadioChange(i)
  \/ SetSelectedRowKeys
  \/ \E page \in 1..MaxPage : PaginationChange(page, pageSize)
  \/ PageCorrectionEffect

SpecSelection == InitSelection /\ [][NextSelection]_vars

\* the table mounted with an uncontrolled checkbox selection over SelRows
\* rows in pages of SmallPageSize rows, the caller choosing the rowKey
InitInteractions ==
  /\ dataSource = MakeData(SelRows)
  /\ paginationProp = [enabled |-> TRUE, hasOnChange |-> FALSE,
                       serverSide |-> FALSE, current |-> 1,
                       pageSize |-> SmallPageSize]
  /\ visibleKeys = NoVisibleKeys
  /\ internalPagination = [current |-> 1, pageSize |-> SmallPageSize]
  /\ filters = [k \in ColumnKeys |-> Absent]
  /\ sorter = [field |-> "", order |-> "null"]
  /\ onChangeCalls = <<>>
  /\ paginationOnChangeCalls = <<>>
  /\ lastOp = "mount"
  /\ sortedData = SortedData(filteredData, visibleKeys, sorter)
  /\ rowKey \in {"key", "id"}
  /\ rowSelectionProp = [enabled |-> TRUE, type |-> "checkbox",
                         controlled |-> FALSE, selectedRowKeys |-> {},
                         fixed |-> "none"]
  /\ selectedRowKeySet = {}
  /\ rowSelectionOnChangeCalls = <<>>
  /\ LayoutDefault

\* filter, sort, page, page-size and selection interactions
NextInteractions ==
  \/ \E c \in ColumnIndexes : \E j \in 1..Len(Columns[c].filters) :
       FilterCheckboxChange(c, j)
  \/ \E c \in ColumnIndexes : SortClick(c)
  \/ \E page \in 1..MaxPage, size \in PageSizes : PaginationChange(page, size)
  \/ PageCorrectionEffect
  \/ \E i \in 1..Len(displayData) : RowCheckboxChange(i)
  \/ \E selected \in BOOLEAN : HeaderCheckboxChange(selected)

SpecInteractions == InitInteractions /\ [][NextInteractions]_vars

\* the table mounted with columns of any width, minWidth and fixed side, with
\* or without a selection column
InitLayout ==
  /\ dataSource = MakeData(SmallPageSize)
  /\ paginationProp = [enabled |-> TRUE, hasOnChange |-> FALSE,
                       serverSide |-> FALSE, current |-> 1,
                       pageSize |-> DefaultPageSize]
  /\ visibleKeys = NoVisibleKeys
  /\ internalPagination = [current |-> 1, pageSize |-> DefaultPageSize]
  /\ filters = [k \in ColumnKeys |-> Absent]
  /\ sorter = [field |-> "", order |-> "null"]
  /\ onChangeCalls = <<>>
  /\ paginationOnChangeCalls = <<>>
  /\ lastOp = "mount"
  /\ sortedData = SortedData(filteredData, visibleKeys, sorter)
  /\ rowKey = "key"
  /\ \E enabled \in BOOLEAN, fixed \in FixedValues :
       /\ ~enabled => fixed = "none"
       /\ rowSelectionProp = [enabled |-> enabled, type |-> "checkbox",
                              controlled |-> FALSE, selectedRowKeys |-> {},
                              fixed |-> fixed]
  /\ selectedRowKeySet = {}
  /\ rowSelectionOnChangeCalls = <<>>
  /\ columnProps \in ColumnPropsChoices
  /\ scrollProp = [x |-> FALSE, y |-> FALSE]
  /\ scrollContainer = [scrollLeft |-> 0, scrollWidth |-> 0, clientWidth |-> 0]
  /\ scrollPos = [scrollLeft |-> 0, scrollWidth |-> 0, clientWidth |-> 0]
  /\ mounted = TRUE
  /\ observerEffect = [ran |-> TRUE, hasScroll |-> FALSE]
  /\ observers = 0

\* the caller shows and hides columns
NextLayout == \E v \in VisibleKeyChoices : SetVisibleKeys(v)

SpecLayout == InitLayout /\ [][NextLayout]_vars

\* the table at its mount, before its effects: any scroll prop, an element
\* of any width, the first column and the selection column fixed or not
InitScroll ==
  /\ dataSource = MakeData(SmallPageSize)
  /\ paginationProp = [enabled |-> TRUE, hasOnChange |-> FALSE,
                       serverSide |-> FALSE, current |-> 1,
                       pageSize |-> DefaultPageSize]
  /\ visibleKeys = NoVisibleKeys
  /\ internalPagination = [current |-> 1, pageSize |-> DefaultPageSize]
  /\ filters = [k \in ColumnKeys |-> Absent]
  /\ sorter = [field |-> "", order |-> "null"]
  /\ onChangeCalls = <<>>
  /\ paginationOnChangeCalls = <<>>
  /\ lastOp = "mount"
  /\ sortedData = SortedData(filteredData, visibleKeys, sorter)
  /\ rowKey = "key"
  /\ \E enabled \in BOOLEAN :
       rowSelectionProp = [enabled |-> enabled, type |-> "checkbox",
                           controlled |-> FALSE, selectedRowKeys |-> {},
                           fixed |-> IF enabled THEN "left" ELSE "none"]
  /\ selectedRowKeySet = {}
  /\ rowSelectionOnChangeCalls = <<>>
  /\ \E fixed \in FixedValues :
       columnProps = [ColumnPropsDefault EXCEPT !["ch"].fixed = fixed]
  /\ \E x \in BOOLEAN, y \in BOOLEAN : scrollProp = [x |-> x, y |-> y]
  /\ \E scrollWidth \in 0..MaxWidth, clientWidth \in 0..MaxWidth :
       scrollContainer = [scrollLeft |-> 0, scrollWidth |-> scrollWidth,
                          clientWidth |-> clientWidth]
  /\ scrollPos = [scrollLeft |-> 0, scrollWidth |-> 0, clientWidth |-> 0]
  /\ mounted = TRUE
  /\ observerEffect = [ran |-> FALSE, hasScroll |-> FALSE]
  /\ observers = 0

\* the observer effect, another scroll prop, resizes, scrolling, the unmount
NextScroll ==
  \/ ObserverEffect
  \/ \E x \in BOOLEAN, y \in BOOLEAN : SetScroll(x, y)
  \/ \E clientWidth \in 0..MaxWidth : ContainerResize(clientWidth)
  \/ \E scrollWidth \in 0..MaxWidth : ContentResize(scrollWidth)
  \/ \E scrollLeft \in 0..MaxWidth : Scroll(scrollLeft)
  \/ Unmount

SpecScroll == InitScroll /\ [][NextScroll]_vars

\* the data sources of the shrinking scenarios: none, one page, SelRows rows
ShrinkSizes == {0, SmallPageSize, SelRows}

\* the table mounted over SelRows rows in pages of SmallPageSize rows, in any
\* pagination mode
InitShrink ==
  /\ dataSource = MakeData(SelRows)
  /\ \E controlled, server \in BOOLEAN :
       paginationProp = [enabled |-> TRUE, hasOnChange |-> controlled,
                         serverSide |-> server, current |-> 1,
                         pageSize |-> SmallPageSize]
  /\ visibleKeys = NoVisibleKeys
  /\ internalPagination = [current |-> 1, pageSize |-> SmallPageSize]
  /\ filters = [k \in ColumnKeys |-> Absent]
  /\ sorter = [field |-> "", order |-> "null"]
  /\ onChangeCalls = <<>>
  /\ paginationOnChangeCalls = <<>>
  /\ lastOp = "mount"
  /\ sortedData = SortedData(filteredData, visibleKeys, sorter)
  /\ SelectionAbsent
  /\ LayoutDefault

\* page changes, and the changes of data, filters and visible columns that
\* shrink or grow the working set
NextShrink ==
  \/ \E n \in ShrinkSizes : SetDataSource(n)
  \/ \E c \in ColumnIndexes : \E j \in 1..Len(Columns[c].filters) :
       FilterCheckboxChange(c, j)
  \/ \E v \in VisibleKeyChoices : SetVisibleKeys(v)
  \/ \E page \in 1..MaxPage : PaginationChange(page, pageSize)
  \/ \E page \in 1..MaxPage : SetPagination(page, pageSize)
  \/ PageCorrectionEffect

\* React runs the effects of a render before it handles the next event
SpecShrink ==
  InitShrink /\ [][NextShrink]_vars /\ WF_vars(PageCorrectionEffect)

(***************************************************************************)
(* Properties of the pagination state and of the change notification,      *)
(* checked under Spec.                                                     *)
(***************************************************************************)
Interactions == {"filter", "sort", "page"}

\* C1: after every filter change and every sort change the table's current
\* page is 1, in controlled and in uncontrolled pagination mode alike.
C1_PageOneAfterFilterOrSort ==
  lastOp \in {"filter", "sort"} => currentPage = 1

\* C2: the rows a filter, sort or page change reports as
\* extra.currentDataSource are the rows displayed after the interaction.
C2_NotifiesDisplayedRows ==
  lastOp \in Interactions /\ Len(onChangeCalls) > 0
    => onChangeCalls[1].currentDataSource = displayData

C4_EffectivePageInRange ==
  ~isServerSide
    => /\ totalPages = Max(1, CeilDiv(Len(sortedData), pageSize))
       /\ effectiveCurrentPage \in 1..totalPages

\* the rows of `rows` at the 0-based positions [(p - 1) * size, p * size)
PageRange(rows, p, size) ==
  LET positions == [i \in 1..Len(rows) |-> i]
      OnPage(i) == (p - 1) * size < i /\ i <= p * size
      kept == SelectSeq(positions, OnPage)
  IN [k \in 1..Len(kept) |-> rows[kept[k]]]

\* the requested page clamped into 1..totalPages
ClampedPage == Max(1, Min(currentPage, totalPages))

\* C5: without server-side pagination the displayed rows are the sub-range
\* [(p - 1) * pageSize, p * pageSize) of the working set, p being the clamped
\* page, so a non-empty working set never shows a blank page.
C5_DisplaysClampedPage ==
  ~isServerSide
    => /\ displayData = PageRange(sortedData, ClampedPage, pageSize)
       /\ (Len(sortedData) > 0 => Len(displayData) > 0)

\* C6: a page or page-size change of a controlled table is forwarded to
\* pagination.onChange(page, pageSize) and leaves internalPagination as it
\* was; of an uncontrolled table it sets internalPagination to the page and
\* page size asked for, which are then the current page and page size.
C6_PageChangeStep ==
  lastOp' = "page" /\ Len(onChangeCalls') = 1
    => LET asked == [current |-> onChangeCalls'[1].pagination.current,
                     pageSize |-> onChangeCalls'[1].pagination.pageSize]
       IN IF paginationProp.hasOnChange
          THEN /\ internalPagination' = internalPagination
               /\ paginationOnChangeCalls' =
                    <<[page |-> asked.current, pageSize |-> asked.pageSize]>>
          ELSE /\ internalPagination' = asked
               /\ currentPage' = asked.current
               /\ pageSize' = asked.pageSize
               /\ paginationOnChangeCalls' = <<>>

C7_ServerSidePageUnclamped ==
  isServerSide /\ total # 0 => effectiveCurrentPage = currentPage

\* C8: with server-side pagination the displayed rows are the working set
\* (the rows after the table's column filters and sort), whole.
C8_ServerSideShowsWorkingSet ==
  isServerSide => displayData = sortedData

\* C9: with pagination disabled the table displays every row of the working
\* set.
C9_DisabledShowsAllRows ==
  ~paginationProp.enabled => displayData = sortedData

(***************************************************************************)
(* Properties of the filter step, checked under SpecColumns.               *)
(***************************************************************************)
\* a row passes column c: the column has no non-empty accepted-value list, or
\* the row matches one of its accepted values
Accepts(c, record) ==
  LET col == Columns[c]
      accepted == filters[getColumnKey(col, c)]
  IN accepted.state = "list" /\ Len(accepted.values) > 0
       => \E j \in 1..Len(accepted.values) :
            IF col.onFilter THEN OnFilter(accepted.values[j], record)
            ELSE getCellValue(record, col.dataIndex).s = accepted.values[j].s

\* the rows of the data source, in order, that pass every column of `cols`
RowsAccepted(cols) ==
  LET Passes(record) == \A c \in cols : Accepts(c, record)
  IN SelectSeq(dataSource, Passes)

\* C10 as stated: the filtered rows are the input rows that pass every column
\* with a non-empty accepted-value list, in input order.
C10_FiltersEveryColumn == filteredData = RowsAccepted(ColumnIndexes)

\* C10, amended: the filtered rows are the input rows that pass every visible
\* column with a non-empty accepted-value list (AND across the visible
\* columns, OR within a column), in input order.
C10_FiltersVisibleColumns ==
  filteredData =
    RowsAccepted({visibleColumns[k] : k \in 1..Len(visibleColumns)})

\* both columns filtered, one of them by two values, some rows kept
C10_Witness ==
  /\ visibleKeys = NoVisibleKeys
  /\ filters["ch"].state = "list"
  /\ Len(filters["ch"].values) = 2
  /\ filters["dur"].state = "list"
  /\ Len(filteredData) > 0
  /\ Len(filteredData) < Len(dataSource)

\* no column has a non-empty list of accepted values
NoAcceptedValues ==
  \A k \in ColumnKeys : filters[k].state # "list" \/ Len(filters[k].values) = 0

\* C11: the filtered rows are never more than the input rows, and are as many
\* as the input rows when no column has a non-empty accepted-value list
\* (absent, null or empty).
C11_FilteredCount ==
  /\ Len(filteredData) <= Len(dataSource)
  /\ NoAcceptedValues => Len(filteredData) = Len(dataSource)

\* a filter was set and cleared again (its entry is null), over some rows
C11_Witness ==
  /\ NoAcceptedValues
  /\ filters["ch"].state = "null"
  /\ lastOp = "filter"
  /\ Len(dataSource) > 0

\* column c is hidden through the visible-key list
Hidden(c) ==
  visibleKeys.given /\ getColumnKey(Columns[c], c) \notin visibleKeys.keys

\* C12 as stated: a filter set on a column stays applied after the column is
\* hidden: every row of the working set matches the accepted values of every
\* hidden column.
C12_HiddenFilterStaysApplied ==
  \A c \in ColumnIndexes :
    Hidden(c) => \A i \in 1..Len(sortedData) : Accepts(c, sortedData[i])

\* C12, amended: a filter set on a column is not applied while the column is
\* hidden: the filtered rows are those obtained with the hidden column's
\* accepted values cleared.
C12_HiddenFilterNotApplied ==
  \A c \in ColumnIndexes :
    Hidden(c) =>
      filteredData =
        FilteredData(dataSource, visibleKeys,
                     [filters EXCEPT ![getColumnKey(Columns[c], c)] = Null])

\* the "ch" column is hidden with a filter set on it, and a row that does not
\* match the filter is in the working set
C12_Witness ==
  /\ Hidden(1)
  /\ filters["ch"].state = "list"
  /\ \E i \in 1..Len(sortedData) : ~Accepts(1, sortedData[i])

\* C13: setting a filter on a column and clearing it again gives the working
\* set of a table on whose column no filter was ever set: the same rows in the
\* same order.
C13_ClearStep ==
  \A k \in ColumnKeys :
    filters[k].state = "list" /\ filters'[k].state = "null"
      => sortedData' =
           SortedData(FilteredData(dataSource, visibleKeys,
                                   [filters EXCEPT ![k] = Absent]),
                      visibleKeys, sorter)

C13_ClearRestores == [][C13_ClearStep]_vars

\* a filter was cleared while the other column is filtered and a sort is on
C13_Witness ==
  /\ lastOp = "filter"
  /\ filters["ch"].state = "null"
  /\ filters["dur"].state = "list"
  /\ sorter.order = "descend"
  /\ Len(sortedData) > 1

\* the sort key of a row in the sorter: true column "dur"
DurKey(r) == getCellValue(r, "dur").n

\* the working set is sorted by the "dur" column
SortedByDur == sorter.field = "dur" /\ sorter.order \in {"ascend", "descend"}

\* C14: with sorter: true the sort is stable: rows with distinct keys are in
\* ascending order when ascending and in the reverse order when descending,
\* and rows with equal keys keep their relative order of the input in both
\* directions.
C14_StableSort ==
  SortedByDur /\ ~Hidden(2) =>
    /\ Len(sortedData) = Len(filteredData)
    /\ \A i \in 1..Len(filteredData) :
         \E j \in 1..Len(sortedData) : sortedData[j] = filteredData[i]
    /\ \A i, j \in 1..Len(sortedData) :
         i < j =>
           LET a == sortedData[i]
               b == sortedData[j]
           IN /\ sorter.order = "ascend" => DurKey(a) <= DurKey(b)
              /\ sorter.order = "descend" => DurKey(a) >= DurKey(b)
              /\ DurKey(a) = DurKey(b) => a < b

\* a descending sort over rows with equal and with distinct keys
C14_Witness ==
  /\ SortedByDur /\ ~Hidden(2)
  /\ sorter.order = "descend"
  /\ \E i, j \in 1..Len(sortedData) :
       i < j /\ DurKey(sortedData[i]) = DurKey(sortedData[j])
  /\ \E i, j \in 1..Len(sortedData) :
       DurKey(sortedData[i]) # DurKey(sortedData[j])

\* the sort state names no visible column
SortColumnUnresolved ==
  \A c \in ColumnIndexes :
    (getColumnKey(Columns[c], c) = sorter.field
       \/ Columns[c].dataIndex = sorter.field) => Hidden(c)

\* C15: without an active sort, or with a sort state naming a column that is
\* not among the visible columns, the sorted working set is the filtered
\* working set, unchanged.
C15_UnresolvedSortIsNoOp ==
  sorter.order = "null" \/ sorter.field = "" \/ SortColumnUnresolved
    => sortedData = filteredData

\* a descending sort on the "dur" column, which has been hidden since, over
\* rows that the sort would reorder
C15_Witness ==
  /\ sorter.field = "dur"
  /\ sorter.order = "descend"
  /\ Hidden(2)
  /\ SortRows(filteredData, Columns[2], "descend") # filteredData

(***************************************************************************)
(* Properties of the row selection, checked under SpecSelection.           *)
(***************************************************************************)
\* the keys of the rows of the displayed page
PageKeys == {Row(displayData[i])[rowKey] : i \in 1..Len(displayData)}

\* the selection a handler results in: the keys it reports to the caller of
\* a controlled table, the internal set of an uncontrolled one
ResultingKeys ==
  IF rowSelectionProp.controlled
  THEN rowSelectionOnChangeCalls[1].selectedRowKeys
  ELSE selectedRowKeySet

\* C16: in checkbox mode select-all-on-page turned on gives the union of the
\* current selection with the keys of the displayed page, turned off gives the
\* current selection without those keys; keys selected on other pages stay.
C16_SelectAllStep ==
  rowSelectionProp.type = "checkbox" /\ lastOp' \in {"allOn", "allOff"}
    => ResultingKeys' = IF lastOp' = "allOn" THEN selectedRowKeys \cup PageKeys
                        ELSE selectedRowKeys \ PageKeys

C16_SelectAllOnPage == [][C16_SelectAllStep]_vars

\* select-all turned on on page 2 with a key of page 1 selected before
C16_Witness ==
  /\ lastOp = "allOn"
  /\ rowSelectionProp.type = "checkbox" /\ ~rowSelectionProp.controlled
  /\ currentPage = 2
  /\ Num(1) \in selectedRowKeySet /\ Num(2) \notin selectedRowKeySet
  /\ Cardinality(selectedRowKeySet) = 1 + Len(displayData)

\* C17, steps: in radio mode picking a row makes the selection that row's key
\* alone, and select-all-on-page changes nothing and reports nothing.
C17_RadioStep ==
  rowSelectionProp.type = "radio" =>
    /\ lastOp' = "radio" =>
         /\ Cardinality(selectedRowKeySet') = 1
         /\ selectedRowKeySet' = rowSelectionOnChangeCalls'[1].selectedRowKeys
    /\ lastOp' \in {"allOn", "allOff"} =>
         /\ selectedRowKeySet' = selectedRowKeySet
         /\ rowSelectionProp' = rowSelectionProp
         /\ rowSelectionOnChangeCalls' = <<>>

\* C17: in radio mode the selected keys are at most one in every state.
C17_RadioAtMostOne ==
  /\ [](rowSelectionProp.type = "radio" => Cardinality(selectedRowKeys) <= 1)
  /\ [][C17_RadioStep]_vars

\* select-all-on-page ran in a radio table in which a row had been picked
C17_Witness ==
  /\ rowSelectionProp.type = "radio"
  /\ lastOp \in {"allOn", "allOff"}
  /\ Cardinality(selectedRowKeys) = 1

\* C18: with caller-supplied selectedRowKeys no selection action changes the
\* internal set of selected keys (it stays the empty set it was created as),
\* and the rows shown as selected are those with a key in the caller's list.
C18_ControlledKeepsInternalSet ==
  rowSelectionProp.controlled =>
    /\ selectedRowKeySet = {}
    /\ selectedRowKeys = rowSelectionProp.selectedRowKeys

\* the selection handlers that change the selection
SelectionMutation ==
  \/ lastOp \in {"rowOn", "rowOff", "radio"}
  \/ lastOp \in {"allOn", "allOff"} /\ rowSelectionProp.type # "radio"

\* C19: every selection mutation calls rowSelection.onChange once, with the
\* new keys and with the rows of the whole data source whose key is among
\* them.
C19_ReportsOnce ==
  SelectionMutation =>
    /\ Len(rowSelectionOnChangeCalls) = 1
    /\ rowSelectionOnChangeCalls[1].selectedRowKeys = ResultingKeys
    /\ rowSelectionOnChangeCalls[1].selectedRows =
         RowsWithKeys(rowSelectionOnChangeCalls[1].selectedRowKeys)

\* C20: a row whose key is undefined is never matched as selected, and
\* undefined is never among the selected keys.
C20_MissingKeyNeverSelected ==
  /\ Undefined \notin selectedRowKeySet
  /\ \A i \in 1..Len(dataSource) :
       Row(dataSource[i])[rowKey] = Undefined
         => Row(dataSource[i])[rowKey] \notin selectedRowKeys

(***************************************************************************)
(* Properties of the sort state, checked under SpecColumns.                *)
(***************************************************************************)
\* the working set is sorted by the "ch" column, whose sorter is a function
SortedByCustom ==
  sorter.field = "channel" /\ sorter.order \in {"ascend", "descend"} /\ ~Hidden(1)

\* C25: a custom comparator is applied as given, never inverted: the working
\* set is in the same order for an ascending and for a descending sort on the
\* column, the order the comparator alone gives.
C25_CustomComparatorNotInverted ==
  SortedByCustom =>
    /\ \A i, j \in 1..Len(sortedData) :
         i < j => SorterFn(sortedData[i], sortedData[j]) <= 0
    /\ sortedData =
         SortedData(filteredData, visibleKeys,
                    [field |-> "channel",
                     order |-> IF sorter.order = "ascend" THEN "descend"
                               ELSE "ascend"])

\* a descending sort by the custom comparator that reorders the rows
C25_Witness ==
  /\ SortedByCustom
  /\ sorter.order = "descend"
  /\ Len(sortedData) > 1
  /\ sortedData # filteredData

\* the sort order the header of column c shows for the sort state `so`
ColumnOrder(so, c) ==
  IF so.field = getColumnKey(Columns[c], c) \/ so.field = Columns[c].dataIndex
  THEN so.order ELSE "null"

\* none -> ascend -> descend -> none
NextInCycle(order) ==
  IF order = "null" THEN "ascend"
  ELSE IF order = "ascend" THEN "descend" ELSE "null"

\* C30, steps: a click on the sort control of a column moves that column's
\* order one step in the cycle none -> ascend -> descend -> none (a column
\* other than the sorted one becomes ascending) and leaves every other column
\* unsorted.
C30_SortClickStep ==
  lastOp' = "sort" =>
    \E c \in ColumnIndexes :
      /\ sorter'.field = Columns[c].dataIndex
      /\ ColumnOrder(sorter', c) = NextInCycle(ColumnOrder(sorter, c))
      /\ \A d \in ColumnIndexes \ {c} : ColumnOrder(sorter', d) = "null"

PageBeyondLast ==
  /\ ~paginationProp.hasOnChange
  /\ ~paginationProp.serverSide
  /\ currentPage > totalPages

\* C24 as stated: whenever the current page of an uncontrolled client-side
\* table exceeds the last page, the corrective update to the last page is due.
C24_CorrectionScheduled == PageBeyondLast => ENABLED PageCorrectionEffect

\* in controlled mode only a page change asked for by the user calls
\* pagination.onChange, and nothing changes the internal page
C24_ControlledStep ==
  paginationProp.hasOnChange /\ lastOp' # "page"
    => /\ internalPagination' = internalPagination
       /\ paginationOnChangeCalls' = <<>>

\* C24, amended: when the current page of an uncontrolled client-side table
\* exceeds the last page of a non-empty working set, the internal page is
\* eventually set to the last page; in controlled mode the table neither
\* changes its internal page nor calls pagination.onChange.
C24_PageCorrected ==
  /\ (PageBeyondLast /\ Len(sortedData) # 0)
       ~> (lastOp = "effect" /\ internalPagination.current = totalPages)
  /\ [][C24_ControlledStep]_vars

\* the page was corrected after the data source shrank
C24_Witness ==
  /\ lastOp = "effect"
  /\ ~paginationProp.hasOnChange
  /\ Len(dataSource) = SmallPageSize
  /\ internalPagination.current = totalPages

(***************************************************************************)
(* Properties across filter, sort, page and selection interactions,        *)
(* checked under SpecInteractions.                                         *)
(***************************************************************************)
\* the defined keys of the displayed rows are pairwise distinct
DefinedKeysUnique ==
  \A i, j \in 1..Len(displayData) :
    /\ i # j
    /\ Row(displayData[i])[rowKey] # Undefined
    /\ Row(displayData[j])[rowKey] # Undefined
    => Row(displayData[i])[rowKey] # Row(displayData[j])[rowKey]

\* C21: the rendering keys of the displayed rows are pairwise distinct
\* whenever their defined row keys are: the positional index a row with a
\* missing key gets collides with no other rendering key of the page.
C21_RenderKeysDistinct ==
  DefinedKeysUnique =>
    \A i, j \in 1..Len(displayData) : i # j => RenderKey(i) # RenderKey(j)

\* the handlers of the user's interactions and the page correction
TableOperations ==
  {"filter", "sort", "page", "effect", "rowOn", "rowOff", "allOn", "allOff",
   "radio"}

\* C28: no filter, sort, page or selection operation changes the caller's
\* dataSource: its rows and their order are the same after as before.
C28_DataSourceStep == lastOp' \in TableOperations => dataSource' = dataSource

C28_DataSourceUnchanged == [][C28_DataSourceStep]_vars

\* a sort reordered the rows of a table without filters, whose filteredData
\* is the caller's array itself
C28_Witness ==
  /\ lastOp = "sort"
  /\ NoAcceptedValues
  /\ Len(sortedData) = Len(dataSource)
  /\ sortedData # dataSource

\* C29: in uncontrolled selection mode filter, sort, page and page-size
\* changes (and the page correction) leave the internal selected-key set as
\* it was.
C29_SelectionStep ==
  ~rowSelectionProp.controlled /\ lastOp' \in {"filter", "sort", "page", "effect"}
    => selectedRowKeySet' = selectedRowKeySet

C29_SelectionKeptAcrossPages == [][C29_SelectionStep]_vars

\* back on page 1 with a key of page 1 and a key of page 2 selected
C29_Witness ==
  /\ lastOp = "page"
  /\ rowKey = "key"
  /\ currentPage = 1 /\ pageSize = SmallPageSize
  /\ NoAcceptedValues /\ sorter.order = "null"
  /\ Num(1) \in selectedRowKeySet
  /\ Num(SmallPageSize + 1) \in selectedRowKeySet

(***************************************************************************)
(* Properties of the column layout, checked under SpecLayout.              *)
(***************************************************************************)
\* the layout positions of the data columns
DataPositions == {i \in 1..Len(columnLayout) : columnLayout[i].key # "__selection__"}

\* a number, or a string that reads as one
LooksNumeric(v) ==
  \/ v.t = "number"
  \/ /\ v.t = "string" /\ v.s # <<>>
     /\ \A i \in 1..Len(v.s) :
          v.s[i] \in {"0", "1", "2", "3", "4", "5", "6", "7", "8", "9"}

\* the number a numeric or numeric-looking value stands for
NumericValue(v) == IF v.t = "number" THEN v.n ELSE NumberOfDigits(v.s)

\* the sum of the widths of the items fixed to a side at positions from..to
RECURSIVE SumFixed(_, _, _, _)
SumFixed(layout, side, from, to) ==
  IF from > to THEN 0
  ELSE (IF layout[from].fixed = side THEN layout[from].width ELSE 0)
       + SumFixed(layout, side, from + 1, to)

\* C22: both offset arrays have one entry per layout position; leftOffset[i]
\* is the sum of the widths of the fixed-left items before position i and
\* rightOffset[i] the sum of the widths of the fixed-right items after it.
C22_OffsetsAreSums ==
  /\ Len(leftOffsets) = Len(columnLayout)
  /\ Len(rightOffsets) = Len(columnLayout)
  /\ \A i \in 1..Len(columnLayout) :
       /\ leftOffsets[i] = SumFixed(columnLayout, "left", 1, i - 1)
       /\ rightOffsets[i] =
            SumFixed(columnLayout, "right", i + 1, Len(columnLayout))

\* the selection column (40) and channel (140) fixed left, then duration
\* (114): the left offsets are 0, 40, 180
C22_Witness ==
  /\ lastOp = "props"
  /\ rowSelectionProp.enabled /\ rowSelectionProp.fixed = "left"
  /\ Len(columnLayout) = 3
  /\ columnLayout[2].width = 140 /\ columnLayout[2].fixed = "left"
  /\ columnLayout[3].width = 114
  /\ leftOffsets = <<0, 40, 180>>

\* C26 as stated: the layout width of a column is its width when that is a
\* number, otherwise its minWidth when that is numeric or numeric-looking
\* (also under a width such as '20%'), otherwise 100.
C26_WidthThenMinWidth ==
  \A i \in DataPositions :
    LET col == columnProps[columnLayout[i].key]
    IN columnLayout[i].width =
         IF col.width.t = "number" THEN col.width.n
         ELSE IF LooksNumeric(col.minWidth) THEN NumericValue(col.minWidth)
         ELSE 100

\* C26 amended: the layout width of a column is its width when that is a
\* number or a numeric-looking string; its minWidth, when numeric or
\* numeric-looking, for a column without width; 100 otherwise, so also for
\* every column whose width is a string such as '20%', whatever its minWidth.
C26_WidthElseMinWidth ==
  \A i \in DataPositions :
    LET col == columnProps[columnLayout[i].key]
    IN columnLayout[i].width =
         IF LooksNumeric(col.width) THEN NumericValue(col.width)
         ELSE IF col.width = Undefined /\ LooksNumeric(col.minWidth)
           THEN NumericValue(col.minWidth)
         ELSE 100

\* a displayed column of width '20%' and minWidth 114 has the layout width
\* 100, one of width '120' the layout width 120
C26_Witness ==
  /\ lastOp = "props"
  /\ \E i \in DataPositions :
       LET col == columnProps[columnLayout[i].key]
       IN /\ col.width.t = "string" /\ ~LooksNumeric(col.width)
          /\ col.minWidth = Num(114)
          /\ columnLayout[i].width = 100
  /\ \E i \in DataPositions :
       LET col == columnProps[columnLayout[i].key]
       IN LooksNumeric(col.width) /\ col.width.t = "string"
          /\ columnLayout[i].width = 120

(***************************************************************************)
(* Properties of the scroll snapshot and the resize observer, checked      *)
(* under SpecScroll.                                                       *)
(***************************************************************************)
\* scroll.x was requested and the latest snapshot shows an overflow
SnapshotOverflows ==
  /\ scrollProp.x
  /\ scrollPos.scrollWidth > 0 /\ scrollPos.clientWidth > 0
  /\ scrollPos.scrollWidth > scrollPos.clientWidth

\* C23: a layout item declared fixed is rendered sticky, with an edge
\* shadow, only if scroll.x was requested and the latest snapshot has
\* scrollWidth > clientWidth, both non-zero; otherwise it is rendered as an
\* ordinary column, neither sticky nor shadowed.
C23_StickyOnlyOnOverflow ==
  mounted =>
    \A i \in 1..Len(columnLayout) :
      /\ (isFixedLeft(i) \/ isFixedRight(i)) => SnapshotOverflows
      /\ boxShadow(i) \in {"left", "right"} => SnapshotOverflows
      /\ ~SnapshotOverflows => boxShadow(i) = "unset"

\* a column fixed left is sticky and shadowed after a scroll to the right
C23_Witness ==
  /\ mounted
  /\ \E i \in 1..Len(columnLayout) : isFixedLeft(i) /\ boxShadow(i) = "left"
  /\ lastOp = "scroll"

\* C27: at most one resize observer is connected; one is connected only
\* while the table is mounted and scrolling is requested (or a render has
\* just dropped the request and the effect's cleanup is about to run); none
\* remains after the unmount.
C27_AtMostOneObserver ==
  /\ observers <= 1
  /\ observers = 1 => mounted
  /\ observers = 1 /\ ~ObserverEffectPending => scrollProp.x \/ scrollProp.y
  /\ ~mounted => observers = 0

\* unmounted after an observer was connected
C27_Witness ==
  /\ ~mounted
  /\ observerEffect.ran /\ observerEffect.hasScroll
  /\ observers = 0

====
